---- MODULE Spec2Model ----
(***************************************************************************)
(* Model of the WebSocket session and streaming relay of server.ts         *)
(* (src/unnamed/part_000): the per-connection maps sessionIds and          *)
(* tokenVerified, the handlers onOpen / onMessage / onClose, and the       *)
(* suspension points of onMessage (await verifyToken, for await over the   *)
(* agent's event stream, the 5 ms pacing delay).                           *)
(*                                                                         *)
(* Every call of onMessage is its own asynchronous activation: nothing in  *)
(* the source serialises activations for one connection, so several        *)
(* verifications and several agent streams may be suspended at once.       *)
(***************************************************************************)
EXTENDS Integers, Sequences, FiniteSets, TLC

\* ---- bounds of the model ----
MaxMsgs == 3        \* client messages delivered over the whole run
MaxEvents == 2      \* events the agent streams yield over the whole run
MaxReqs == 2        \* POST /query requests received over the whole run

\* ---- program constants ----
MaxPromptLen == 100000

\* the connection objects (ws) that may ever be opened
Conns == {"c1", "c2"}
\* every activation of onMessage is started by one client message; an
\* initial state may hold one activation that has already ended
InvIds == 1..(MaxMsgs + 1)
VerIds == 1..(MaxMsgs + 1)

\* ---- values ----
Undefined == "undefined"
SessionIdSet == {"s1", "s2"}

\* data.token is Undefined (field missing), "" or a non-empty credential:
\* "good" is one verifyToken accepts, "bad" one it rejects

\* data.prompt: field missing, a string of n UTF-16 units, or a number n
NoPrompt == [t |-> "undefined", n |-> 0]
Str(k) == [t |-> "string", n |-> k]
Num(k) == [t |-> "number", n |-> k]
PromptVals ==
    {NoPrompt, Str(0), Str(1), Str(MaxPromptLen), Str(MaxPromptLen + 1), Num(7)}

\* event.data: text that JSON.parse rejects, the JSON value null, or an object
Obj(tk, p) == [json |-> "object", token |-> tk, prompt |-> p]
Messages ==
    {[json |-> "invalid", token |-> Undefined, prompt |-> NoPrompt],
     [json |-> "null", token |-> Undefined, prompt |-> NoPrompt]}
    \cup {Obj(Undefined, p) : p \in PromptVals}
    \cup {Obj(tk, NoPrompt) : tk \in {"good", "bad"}}
    \cup {Obj(tk, Str(1)) : tk \in {"", "good"}}

\* JavaScript truthiness of the two fields
TruthyToken(tk) == tk \notin {Undefined, ""}
TruthyPrompt(p) ==
    \/ p.t = "string" /\ p.n > 0
    \/ p.t = "number" /\ p.n # 0

\* content blocks of an assistant message; text is a sequence of characters
TextBlock(s) == [type |-> "text", text |-> s]
ToolBlock == [type |-> "tool_use", text |-> <<>>]
Contents ==
    {<<TextBlock(<<"a">>), ToolBlock, TextBlock(<<"b">>)>>}

\* events the agent stream may yield
InitEvent(s) ==
    [type |-> "system", subtype |-> "init", session_id |-> s,
     hasContent |-> FALSE, content |-> <<>>]
AssistantEvent(ct) ==
    [type |-> "assistant", subtype |-> "", session_id |-> "",
     hasContent |-> TRUE, content |-> ct]
EmptyAssistantEvent ==
    [type |-> "assistant", subtype |-> "", session_id |-> "",
     hasContent |-> FALSE, content |-> <<>>]
ResultEvent ==
    [type |-> "result", subtype |-> "success", session_id |-> "s1",
     hasContent |-> FALSE, content |-> <<>>]
Events ==
    {InitEvent(s) : s \in SessionIdSet \cup {""}}
    \cup {AssistantEvent(ct) : ct \in Contents}
    \cup {EmptyAssistantEvent, ResultEvent}

VARIABLES
    connState,      \* per ws: "new", "open" or "closed"
    sessionIds,     \* the Map sessionIds: ws -> string
    tokenVerified,  \* the Map tokenVerified: ws -> boolean
    agentKey,       \* ANTHROPIC_API_KEY or CLAUDE_CODE_OAUTH_TOKEN is set
    sent,           \* per ws: the calls of ws.send, in order
    verifs,         \* activations of onMessage suspended in await verifyToken
    invs,           \* activations of onMessage that called query()
    nMsgs,          \* client messages delivered so far
    nEvents,        \* events yielded by agent streams so far
    apiKeyCfg,      \* CLAUDE_AGENT_SDK_CONTAINER_API_KEY; "" when not set
    reqs,           \* the POST /query requests received, with their outcome
    last            \* the handler step taken last

vars == <<connState, sessionIds, tokenVerified, agentKey, apiKeyCfg, reqs, sent, verifs, invs,
          nMsgs, nEvents, last>>

\* ---- Map operations ----
MapSet(m, k, v) == [x \in DOMAIN m \cup {k} |-> IF x = k THEN v ELSE m[x]]
MapDelete(m, k) == [x \in DOMAIN m \ {k} |-> m[x]]

\* ---- wire messages (the inv field is the activation that sent it) ----
Ready == [type |-> "ready", body |-> "", inv |-> 0]
TokenVerifiedMsg == [type |-> "tokenVerified", body |-> "success", inv |-> 0]
ErrorMsg(text, i) == [type |-> "error", body |-> text, inv |-> i]
TextMsg(ch, i) == [type |-> "text", body |-> ch, inv |-> i]
DoneMsg(i) == [type |-> "done", body |-> "", inv |-> i]

Send(s, c, m) == [s EXCEPT ![c] = Append(@, m)]

NoMsg == [json |-> "none", token |-> Undefined, prompt |-> NoPrompt]
Step(op, c, i, m) == [op |-> op, conn |-> c, inv |-> i, msg |-> m]

Init ==
    /\ connState = [c \in Conns |-> "new"]
    /\ sessionIds = <<>>
    /\ tokenVerified = <<>>
    /\ agentKey \in BOOLEAN
    /\ sent = [c \in Conns |-> <<>>]
    /\ verifs = <<>>
    /\ invs = <<>>
    /\ nMsgs = 0
    /\ nEvents = 0
    /\ apiKeyCfg = ""
    /\ reqs = <<>>
    /\ last = Step("init", "", 0, NoMsg)

\* the state after c2 was opened and closed again: c1 is the only connection
\* that can still be opened
InitOne ==
    /\ connState = [c \in Conns |-> IF c = "c1" THEN "new" ELSE "closed"]
    /\ sessionIds = <<>>
    /\ tokenVerified = <<>>
    /\ agentKey \in BOOLEAN
    /\ sent = [c \in Conns |-> IF c = "c1" THEN <<>> ELSE <<Ready>>]
    /\ verifs = <<>>
    /\ invs = <<>>
    /\ nMsgs = 0
    /\ nEvents = 0
    /\ apiKeyCfg = ""
    /\ reqs = <<>>
    /\ last = Step("init", "", 0, NoMsg)

\* the state after c1 was opened, sent a valid credential and one prompt,
\* and the prompt's stream yielded its init event with session id s1 and
\* ended; c2 has not been opened. Messages and events are counted from here.
InitTwo ==
    /\ connState = [c \in Conns |-> IF c = "c1" THEN "open" ELSE "new"]
    /\ sessionIds = [c \in {"c1"} |-> "s1"]
    /\ tokenVerified = [c \in {"c1"} |-> TRUE]
    /\ agentKey = TRUE
    /\ sent = [c \in Conns |->
                 IF c = "c1" THEN <<Ready, TokenVerifiedMsg, DoneMsg(1)>> ELSE <<>>]
    /\ verifs = <<[conn |-> "c1", token |-> "good", pc |-> "settled"]>>
    /\ invs = <<[conn |-> "c1", resume |-> "", pc |-> "done", pending |-> <<>>,
                 initSeen |-> TRUE, initId |-> "s1", up |-> <<>>, serial |-> TRUE]>>
    /\ nMsgs = 0
    /\ nEvents = 0
    /\ apiKeyCfg = ""
    /\ reqs = <<>>
    /\ last = Step("init", "", 0, NoMsg)

\* the maps are initialised but no ready message is sent
OnOpen_NoReady(c) ==
    /\ connState[c] = "new"
    /\ connState' = [connState EXCEPT ![c] = "open"]
    /\ sessionIds' = MapSet(sessionIds, c, "")
    /\ tokenVerified' = MapSet(tokenVerified, c, FALSE)
    /\ last' = Step("open", c, 0, NoMsg)
    /\ UNCHANGED <<agentKey, apiKeyCfg, reqs, sent, verifs, invs, nMsgs, nEvents>>

\* onOpen (lines 241-252): checkWSAuth resolves true at once, so the handler
\* runs to its end before any message event; both maps get an entry and
\* ready is sent
OnOpen(c) ==
    /\ connState[c] = "new"
    /\ connState' = [connState EXCEPT ![c] = "open"]
    /\ sessionIds' = MapSet(sessionIds, c, "")
    /\ tokenVerified' = MapSet(tokenVerified, c, FALSE)
    /\ sent' = Send(sent, c, Ready)
    /\ last' = Step("open", c, 0, NoMsg)
    /\ UNCHANGED <<agentKey, apiKeyCfg, reqs, verifs, invs, nMsgs, nEvents>>

\* every entry cleared instead of the connection's own
OnClose_ClearsAll(c) ==
    /\ connState[c] = "open"
    /\ connState' = [connState EXCEPT ![c] = "closed"]
    /\ sessionIds' = <<>>
    /\ tokenVerified' = <<>>
    /\ last' = Step("close", c, 0, NoMsg)
    /\ UNCHANGED <<agentKey, apiKeyCfg, reqs, sent, verifs, invs, nMsgs, nEvents>>

\* onClose
OnClose(c) ==
    /\ connState[c] = "open"
    /\ connState' = [connState EXCEPT ![c] = "closed"]
    /\ sessionIds' = MapDelete(sessionIds, c)
    /\ tokenVerified' = MapDelete(tokenVerified, c)
    /\ last' = Step("close", c, 0, NoMsg)
    /\ UNCHANGED <<agentKey, apiKeyCfg, reqs, sent, verifs, invs, nMsgs, nEvents>>

\* ---- helpers of onMessage ----

\* lines 290-291: const isVerified = tokenVerified.get(ws); if (!isVerified)
IsVerified_NoCheck(c) == TRUE
IsVerified(c) == c \in DOMAIN tokenVerified /\ tokenVerified[c]

\* line 304: data.prompt.length > 100000
PromptTooLong_OffByOne(p) == p.n > MaxPromptLen + 1
PromptTooLong(p) == p.n > MaxPromptLen

\* line 312: neither ANTHROPIC_API_KEY nor CLAUDE_CODE_OAUTH_TOKEN is set
NoAgentCredential_CheckDropped == FALSE
NoAgentCredential == ~agentKey

\* lines 321, 332-334: the resume option passed to query(); "" is no option
CurrentSessionId_AnyConnection(c) ==
    IF \E d \in DOMAIN sessionIds : sessionIds[d] # ""
    THEN sessionIds[CHOOSE d \in DOMAIN sessionIds : sessionIds[d] # ""]
    ELSE ""
CurrentSessionId(c) == IF c \in DOMAIN sessionIds THEN sessionIds[c] ELSE ""

\* line 268: verifyToken resolves for a valid credential and rejects otherwise
VerifyToken(tk) == tk = "good"

\* lines 268-272: tokenVerified after verifyToken settled; the set is skipped
\* when the await throws
VerifiedFlag_SetBeforeOutcome(tv, c, ok) == MapSet(tv, c, TRUE)
VerifiedFlag_ClearOnFailure(tv, c, ok) == MapSet(tv, c, ok)
VerifiedFlag(tv, c, ok) == IF ok THEN MapSet(tv, c, TRUE) ELSE tv

\* line 345: the event is the init message and carries a session id
CaptureSessionId_AnyEvent(e) == e.session_id # ""
CaptureSessionId(e) ==
    e.type = "system" /\ e.subtype = "init" /\ e.session_id # ""

\* lines 352-361: the characters of the text blocks of one content array, in
\* the order the nested loops visit them
RECURSIVE PendingChars_StopAtToolUse(_)
PendingChars_StopAtToolUse(content) ==
    IF content = <<>> THEN <<>>
    ELSE LET b == Head(content)
         IN IF b.type = "text"
            THEN b.text \o PendingChars_StopAtToolUse(Tail(content))
            ELSE <<>>

RECURSIVE PendingChars(_)
PendingChars(content) ==
    IF content = <<>> THEN <<>>
    ELSE LET b == Head(content)
         IN (IF b.type = "text" THEN b.text ELSE <<>>)
                \o PendingChars(Tail(content))

\* the text an event carries upstream: its text blocks, concatenated in order
RECURSIVE Concat(_)
Concat(ss) == IF ss = <<>> THEN <<>> ELSE Head(ss) \o Concat(Tail(ss))
UpstreamText(e) ==
    IF e.type = "assistant" /\ e.hasContent
    THEN LET tb == SelectSeq(e.content, LAMBDA b : b.type = "text")
         IN Concat([k \in 1..Len(tb) |-> tb[k].text])
    ELSE <<>>

Terminal(r) == r.pc \in {"done", "error"}

\* lines 337-340: the activation calls query() and suspends in for await
NewInvocation(c) ==
    [conn |-> c,
     resume |-> CurrentSessionId(c),
     pc |-> "next",
     pending |-> <<>>,
     initSeen |-> FALSE,
     initId |-> "",
     up |-> <<>>,
     serial |-> \A j \in DOMAIN invs : invs[j].conn = c => Terminal(invs[j])]

\* lines 264-270: the activation calls verifyToken and suspends
NewVerification(c, tk) == [conn |-> c, token |-> tk, pc |-> "await"]

\* onMessage up to its first suspension point or return
OnMessage(c, m) ==
    /\ connState[c] = "open"
    /\ nMsgs < MaxMsgs
    /\ nMsgs' = nMsgs + 1
    /\ last' = Step("message", c, 0, m)
    /\ UNCHANGED <<connState, agentKey, apiKeyCfg, reqs, sessionIds, tokenVerified, nEvents>>
    /\ IF m.json = "invalid" THEN
            \* JSON.parse throws: return
            UNCHANGED <<sent, verifs, invs>>
       ELSE IF m.json = "null" THEN
            \* data.token on null throws outside any try: the activation ends
            UNCHANGED <<sent, verifs, invs>>
       ELSE IF TruthyToken(m.token) THEN
            /\ verifs' = Append(verifs, NewVerification(c, m.token))
            /\ UNCHANGED <<sent, invs>>
       ELSE IF ~IsVerified(c) THEN
            /\ sent' = Send(sent, c, ErrorMsg("Not authenticated.", 0))
            /\ UNCHANGED <<verifs, invs>>
       ELSE IF ~TruthyPrompt(m.prompt) THEN
            UNCHANGED <<sent, verifs, invs>>
       ELSE IF m.prompt.t # "string" THEN
            UNCHANGED <<sent, verifs, invs>>
       ELSE IF PromptTooLong(m.prompt) THEN
            /\ sent' = Send(sent, c, ErrorMsg("Prompt too long", 0))
            /\ UNCHANGED <<verifs, invs>>
       ELSE IF NoAgentCredential THEN
            /\ sent' = Send(sent, c, ErrorMsg("API key must be configured", 0))
            /\ UNCHANGED <<verifs, invs>>
       ELSE
            /\ invs' = Append(invs, NewInvocation(c))
            /\ UNCHANGED <<sent, verifs>>

\* a rejected credential is not reported to the client
VerifyResolves_SilentFailure(v) ==
    /\ v \in DOMAIN verifs
    /\ verifs[v].pc = "await"
    /\ LET c == verifs[v].conn IN
        /\ verifs' = [verifs EXCEPT ![v].pc = "settled"]
        /\ tokenVerified' = VerifiedFlag(tokenVerified, c, VerifyToken(verifs[v].token))
        /\ sent' = IF VerifyToken(verifs[v].token)
                   THEN Send(sent, c, TokenVerifiedMsg)
                   ELSE sent
        /\ last' = Step("verified", c, 0, NoMsg)
    /\ UNCHANGED <<connState, sessionIds, agentKey, apiKeyCfg, reqs, invs, nMsgs, nEvents>>

\* lines 268-285: verifyToken settles and the activation resumes
VerifyResolves(v) ==
    /\ v \in DOMAIN verifs
    /\ verifs[v].pc = "await"
    /\ LET c == verifs[v].conn IN
        /\ verifs' = [verifs EXCEPT ![v].pc = "settled"]
        /\ tokenVerified' = VerifiedFlag(tokenVerified, c, VerifyToken(verifs[v].token))
        /\ sent' = IF VerifyToken(verifs[v].token)
                   THEN Send(sent, c, TokenVerifiedMsg)
                   ELSE Send(sent, c, ErrorMsg("Token verification failed", 0))
        /\ last' = Step("verified", c, 0, NoMsg)
    /\ UNCHANGED <<connState, sessionIds, agentKey, apiKeyCfg, reqs, invs, nMsgs, nEvents>>

\* lines 342-362: the stream yields an event; the loop body runs up to the
\* first pacing delay, or back to the for await when nothing is streamed
UpstreamYields(i, e) ==
    /\ i \in DOMAIN invs
    /\ invs[i].pc = "next"
    /\ nEvents < MaxEvents
    /\ nEvents' = nEvents + 1
    /\ (e.type = "system" /\ e.subtype = "init") => ~invs[i].initSeen
    /\ LET c == invs[i].conn
           isInit == e.type = "system" /\ e.subtype = "init"
           capture == CaptureSessionId(e)
           chars == IF e.type = "assistant" /\ e.hasContent
                    THEN PendingChars(e.content) ELSE <<>>
       IN
        /\ sessionIds' = IF capture THEN MapSet(sessionIds, c, e.session_id)
                         ELSE sessionIds
        /\ sent' = IF chars # <<>> THEN Send(sent, c, TextMsg(Head(chars), i))
                   ELSE sent
        /\ invs' = [invs EXCEPT ![i] =
                      [@ EXCEPT !.initSeen = @ \/ isInit,
                                !.initId = IF isInit /\ e.session_id # ""
                                           THEN e.session_id ELSE @,
                                !.up = @ \o UpstreamText(e),
                                !.pending = IF chars # <<>> THEN Tail(chars) ELSE <<>>,
                                !.pc = IF chars # <<>> THEN "pace" ELSE "next"]]
        /\ last' = Step("yield", c, i, NoMsg)
    /\ UNCHANGED <<connState, tokenVerified, agentKey, apiKeyCfg, reqs, verifs, nMsgs>>

\* the completion marker sent inside the loop, when a message's text is out
PaceTimer_DoneInLoop(i) ==
    /\ i \in DOMAIN invs
    /\ invs[i].pc = "pace"
    /\ LET c == invs[i].conn
           chars == invs[i].pending
       IN
        /\ sent' = IF chars # <<>> THEN Send(sent, c, TextMsg(Head(chars), i))
                   ELSE Send(sent, c, DoneMsg(i))
        /\ invs' = [invs EXCEPT ![i] =
                      [@ EXCEPT !.pending = IF chars # <<>> THEN Tail(chars) ELSE <<>>,
                                !.pc = IF chars # <<>> THEN "pace" ELSE "next"]]
        /\ last' = Step("pace", c, i, NoMsg)
    /\ UNCHANGED <<connState, sessionIds, tokenVerified, agentKey, apiKeyCfg, reqs, verifs, nMsgs, nEvents>>

\* line 358: the 5 ms delay elapses; the next character is sent, or the loops
\* are finished and the activation is back in the for await
PaceTimer(i) ==
    /\ i \in DOMAIN invs
    /\ invs[i].pc = "pace"
    /\ LET c == invs[i].conn
           chars == invs[i].pending
       IN
        /\ sent' = IF chars # <<>> THEN Send(sent, c, TextMsg(Head(chars), i))
                   ELSE sent
        /\ invs' = [invs EXCEPT ![i] =
                      [@ EXCEPT !.pending = IF chars # <<>> THEN Tail(chars) ELSE <<>>,
                                !.pc = IF chars # <<>> THEN "pace" ELSE "next"]]
        /\ last' = Step("pace", c, i, NoMsg)
    /\ UNCHANGED <<connState, sessionIds, tokenVerified, agentKey, apiKeyCfg, reqs, verifs, nMsgs, nEvents>>

\* the loop left without the completion marker being sent
UpstreamEnds_NoMarker(i) ==
    /\ i \in DOMAIN invs
    /\ invs[i].pc = "next"
    /\ invs' = [invs EXCEPT ![i].pc = "done"]
    /\ last' = Step("end", invs[i].conn, i, NoMsg)
    /\ UNCHANGED <<connState, sessionIds, tokenVerified, agentKey, apiKeyCfg, reqs, sent, verifs, nMsgs, nEvents>>

\* line 365: the stream is exhausted
UpstreamEnds(i) ==
    /\ i \in DOMAIN invs
    /\ invs[i].pc = "next"
    /\ sent' = Send(sent, invs[i].conn, DoneMsg(i))
    /\ invs' = [invs EXCEPT ![i].pc = "done"]
    /\ last' = Step("end", invs[i].conn, i, NoMsg)
    /\ UNCHANGED <<connState, sessionIds, tokenVerified, agentKey, apiKeyCfg, reqs, verifs, nMsgs, nEvents>>

\* the completion marker sent after the catch block as well
UpstreamRaises_Finally(i) ==
    /\ i \in DOMAIN invs
    /\ invs[i].pc = "next"
    /\ sent' = Send(Send(sent, invs[i].conn, ErrorMsg("Failed to process query", i)),
                    invs[i].conn, DoneMsg(i))
    /\ invs' = [invs EXCEPT ![i].pc = "error"]
    /\ last' = Step("raise", invs[i].conn, i, NoMsg)
    /\ UNCHANGED <<connState, sessionIds, tokenVerified, agentKey, apiKeyCfg, reqs, verifs, nMsgs, nEvents>>

\* the connection's verification flag dropped when the stream raises
UpstreamRaises_Unauthenticates(i) ==
    /\ i \in DOMAIN invs
    /\ invs[i].pc = "next"
    /\ sent' = Send(sent, invs[i].conn, ErrorMsg("Failed to process query", i))
    /\ invs' = [invs EXCEPT ![i].pc = "error"]
    /\ tokenVerified' = MapDelete(tokenVerified, invs[i].conn)
    /\ last' = Step("raise", invs[i].conn, i, NoMsg)
    /\ UNCHANGED <<connState, sessionIds, agentKey, apiKeyCfg, reqs, verifs, nMsgs, nEvents>>

\* lines 367-373: query() or the stream raises
UpstreamRaises(i) ==
    /\ i \in DOMAIN invs
    /\ invs[i].pc = "next"
    /\ sent' = Send(sent, invs[i].conn, ErrorMsg("Failed to process query", i))
    /\ invs' = [invs EXCEPT ![i].pc = "error"]
    /\ last' = Step("raise", invs[i].conn, i, NoMsg)
    /\ UNCHANGED <<connState, sessionIds, tokenVerified, agentKey, apiKeyCfg, reqs, verifs, nMsgs, nEvents>>

(***************************************************************************)
(* POST /query (lines 127-213)                                             *)
(***************************************************************************)

\* a request header: absent, or a string given as the sequence of its parts
NoHeader == [present |-> FALSE, parts |-> <<>>]
Header(ps) == [present |-> TRUE, parts |-> ps]
TruthyHeader(h) == h.present /\ h.parts # <<>>

\* String.replace('Bearer ', ''): the first occurrence is removed
RECURSIVE ReplaceBearer(_)
ReplaceBearer(ps) ==
    IF ps = <<>> THEN <<>>
    ELSE IF Head(ps) = "Bearer " THEN Tail(ps)
    ELSE <<Head(ps)>> \o ReplaceBearer(Tail(ps))

\* line 50: x-api-key || authorization?.replace('Bearer ', '')
PresentedKey(q) ==
    IF TruthyHeader(q.xkey) THEN q.xkey
    ELSE IF q.auth.present THEN Header(ReplaceBearer(q.auth.parts))
    ELSE NoHeader

\* lines 46-52
CheckApiAuth_MissingPasses(q) ==
    \/ apiKeyCfg = ""
    \/ ~PresentedKey(q).present
    \/ PresentedKey(q) = Header(<<apiKeyCfg>>)
CheckApiAuth(q) ==
    \/ apiKeyCfg = ""
    \/ PresentedKey(q) = Header(<<apiKeyCfg>>)

Request(x, a, b) == [xkey |-> x, auth |-> a, body |-> b]
ValidBody == Obj(Undefined, Str(1))
Requests ==
    {Request(h[1], h[2], ValidBody) :
        h \in {<<NoHeader, NoHeader>>,
               <<Header(<<"k1">>), NoHeader>>,
               <<Header(<<"k2">>), NoHeader>>,
               <<Header(<<>>), Header(<<"Bearer ", "k1">>)>>,
               <<NoHeader, Header(<<"k1">>)>>,
               <<NoHeader, Header(<<"Bearer ", "k2">>)>>,
               <<Header(<<"k2">>), Header(<<"Bearer ", "k1">>)>>}}
    \cup {Request(Header(<<"k1">>), NoHeader, b) :
             b \in {m \in Messages : m.token = Undefined}}

Responded(q, st, err) ==
    [req |-> q, pc |-> "responded", status |-> st, error |-> err,
     text |-> <<>>, called |-> FALSE]

\* lines 128-187: the handler up to the response or to the for await
QueryOutcome(q) ==
    IF ~CheckApiAuth(q) THEN Responded(q, 401, "Unauthorized")
    ELSE IF q.body.json \in {"invalid", "null"}
         THEN Responded(q, 500, "Failed to process query")
    ELSE IF ~TruthyPrompt(q.body.prompt)
         THEN Responded(q, 400, "Prompt is required")
    ELSE IF q.body.prompt.t # "string"
         THEN Responded(q, 400, "Prompt must be a string")
    ELSE IF PromptTooLong(q.body.prompt)
         THEN Responded(q, 400, "Prompt too long")
    ELSE IF ~agentKey
         THEN Responded(q, 401, "API key must be configured")
    ELSE [req |-> q, pc |-> "streaming", status |-> 0, error |-> "",
          text |-> <<>>, called |-> TRUE]

wsVars == <<connState, sessionIds, tokenVerified, sent, verifs, invs, nMsgs, last>>

QueryRequest(q) ==
    /\ Len(reqs) < MaxReqs
    /\ reqs' = Append(reqs, QueryOutcome(q))
    /\ UNCHANGED <<wsVars, agentKey, apiKeyCfg, nEvents>>

\* lines 189-200: the stream yields an event; its text is collected
QueryYields(r, e) ==
    /\ r \in DOMAIN reqs
    /\ reqs[r].pc = "streaming"
    /\ nEvents < MaxEvents
    /\ nEvents' = nEvents + 1
    /\ reqs' = [reqs EXCEPT ![r].text =
                   @ \o (IF e.type = "assistant" /\ e.hasContent
                         THEN PendingChars(e.content) ELSE <<>>)]
    /\ UNCHANGED <<wsVars, agentKey, apiKeyCfg>>

\* lines 202-205
QueryEnds(r) ==
    /\ r \in DOMAIN reqs
    /\ reqs[r].pc = "streaming"
    /\ reqs' = [reqs EXCEPT ![r].pc = "responded", ![r].status = 200]
    /\ UNCHANGED <<wsVars, agentKey, apiKeyCfg, nEvents>>

\* lines 206-212
QueryRaises(r) ==
    /\ r \in DOMAIN reqs
    /\ reqs[r].pc = "streaming"
    /\ reqs' = [reqs EXCEPT ![r].pc = "responded", ![r].status = 500,
                            ![r].error = "Failed to process query"]
    /\ UNCHANGED <<wsVars, agentKey, apiKeyCfg, nEvents>>

\* the server with either setting of the two credentials, no connection opened
InitQuery ==
    /\ connState = [c \in Conns |-> "new"]
    /\ sessionIds = <<>>
    /\ tokenVerified = <<>>
    /\ agentKey \in BOOLEAN
    /\ sent = [c \in Conns |-> <<>>]
    /\ verifs = <<>>
    /\ invs = <<>>
    /\ nMsgs = 0
    /\ nEvents = 0
    /\ apiKeyCfg \in {"", "k1"}
    /\ reqs = <<>>
    /\ last = Step("init", "", 0, NoMsg)

(***************************************************************************)
(* Properties                                                              *)
(***************************************************************************)

\* what the properties read off the state
Authenticated(c) == c \in DOMAIN tokenVerified /\ tokenVerified[c] = TRUE
InvsOn(c) == {i \in DOMAIN invs : invs[i].conn = c}
Log(i) == sent[invs[i].conn]
DonesOf(i) == {k \in 1..Len(Log(i)) : Log(i)[k].type = "done" /\ Log(i)[k].inv = i}
ErrorsOf(i) == {k \in 1..Len(Log(i)) : Log(i)[k].type = "error" /\ Log(i)[k].inv = i}
TextsOf(i) == {k \in 1..Len(Log(i)) : Log(i)[k].type = "text" /\ Log(i)[k].inv = i}
SentText(i) ==
    LET msgs == SelectSeq(Log(i), LAMBDA m : m.type = "text" /\ m.inv = i)
    IN [k \in 1..Len(msgs) |-> msgs[k].body]
IsPrefix(s, t) == Len(s) <= Len(t) /\ s = SubSeq(t, 1, Len(s))
PromptMessage(m) == m.json = "object" /\ ~TruthyToken(m.token)

\* C1: query() is called for a connection only in a step that starts with the
\* connection's tokenVerified entry being true.
C1_QueryOnlyWhenAuthenticated ==
    [][\A i \in DOMAIN invs' \ DOMAIN invs : Authenticated(invs'[i].conn)]_vars

C1_Witness ==
    /\ last.op = "message"
    /\ last.msg = Obj(Undefined, Str(1))
    /\ Len(invs) = 1
    /\ invs[1].conn = last.conn
    /\ invs[1].pc = "next"
    /\ nEvents = 0

\* C2: on every connection, each text or done message is preceded in the
\* sequence of sent messages by a tokenVerified message with success.
C2_TextAfterTokenVerified ==
    \A c \in Conns : \A k \in 1..Len(sent[c]) :
        sent[c][k].type \in {"text", "done"} =>
            \E j \in 1..(k - 1) : sent[c][j] = TokenVerifiedMsg

C2_Witness ==
    \E c \in Conns : \E k, d \in 1..Len(sent[c]) :
        /\ sent[c][k].type = "text"
        /\ sent[c][d].type = "done"
        /\ \E v \in DOMAIN verifs : verifs[v].token = "bad" /\ verifs[v].pc = "settled"

\* C3: at most one agent invocation is in flight per connection at any time
\* (a prompt arriving while one is in flight starts no new invocation).
C3_AtMostOneInFlight ==
    \A c \in Conns :
        Cardinality({i \in InvsOn(c) : ~Terminal(invs[i])}) <= 1

\* C4: within one connection, no message of a later invocation is sent before
\* the terminal message (done or error) of every earlier invocation.
C4_NoMessageBeforeEarlierTerminal ==
    \A j \in DOMAIN invs : \A i \in InvsOn(invs[j].conn) :
        i < j =>
            \A k \in 1..Len(Log(j)) :
                Log(j)[k].inv = j =>
                    \E t \in DonesOf(i) \cup ErrorsOf(i) : t < k

SetMax(S) == CHOOSE x \in S : \A y \in S : y <= x

\* the invocation whose done message is the last one sent on c among the
\* invocations whose init event carried a session id; 0 when there is none
LastDoneWithId(c) ==
    LET ds == {k \in 1..Len(sent[c]) :
                  sent[c][k].type = "done" /\ invs[sent[c][k].inv].initId # ""}
    IN IF ds = {} THEN 0 ELSE sent[c][SetMax(ds)].inv

\* C5: the stored resume handle of a connection, when non-empty, is the
\* session id of the most recent invocation on it that completed with done
\* (so an invocation that is still streaming, or that raised, leaves the
\* stored handle as it was before it began).
C5_HandleOfLastCompletedTurn ==
    \A c \in DOMAIN sessionIds :
        sessionIds[c] # "" =>
            /\ LastDoneWithId(c) # 0
            /\ sessionIds[c] = invs[LastDoneWithId(c)].initId

\* C6: when the prompts of a connection were submitted serially, each
\* invocation after the first is passed the session id carried by the init
\* event of the invocation before it, if that event carried one, and the
\* first invocation is passed no resume handle.
C6_ResumeIsPreviousInitId ==
    \A c \in Conns :
        (\A i \in InvsOn(c) : invs[i].serial) =>
            \A j \in InvsOn(c) :
                LET prev == {i \in InvsOn(c) : i < j}
                IN IF prev = {} THEN invs[j].resume = ""
                   ELSE invs[SetMax(prev)].initId # "" =>
                            invs[j].resume = invs[SetMax(prev)].initId

C6_Witness ==
    /\ Len(invs) = 2
    /\ invs[1].conn = invs[2].conn
    /\ invs[1].serial /\ invs[2].serial
    /\ invs[1].pc = "error"
    /\ invs[1].initId = "s2"
    /\ invs[2].resume = "s2"

\* C7: an invocation whose stream was exhausted without raising has exactly
\* one done message, sent after all its text messages, and by then every
\* character of the stream's text has been sent; no other invocation has a
\* done message.
C7_OneDoneAfterAllText ==
    \A i \in DOMAIN invs :
        IF invs[i].pc = "done"
        THEN /\ Cardinality(DonesOf(i)) = 1
             /\ \A d \in DonesOf(i) : \A k \in TextsOf(i) : k < d
             /\ SentText(i) = invs[i].up
        ELSE DonesOf(i) = {}

C7_Witness ==
    \E i \in DOMAIN invs :
        /\ invs[i].pc = "done"
        /\ Len(invs[i].up) = 4
        /\ Cardinality(TextsOf(i)) = 4

\* C8: no invocation has both an error and a done message; an invocation
\* whose stream raised has exactly one error message and no done message.
C8_ErrorAndDoneExclusive ==
    \A i \in DOMAIN invs :
        /\ ~(ErrorsOf(i) # {} /\ DonesOf(i) # {})
        /\ invs[i].pc = "error" =>
              Cardinality(ErrorsOf(i)) = 1 /\ DonesOf(i) = {}

C8_Witness ==
    \E i \in DOMAIN invs :
        /\ invs[i].pc = "error"
        /\ TextsOf(i) # {}
        /\ ErrorsOf(i) # {}

\* C9: every text message of an invocation carries one character; the
\* characters sent so far are a prefix of the text of the assistant events
\* consumed so far, and are all of it whenever the relay is not inside a
\* pacing delay.
C9_TextRelayedInOrder ==
    \A i \in DOMAIN invs :
        /\ \A k \in TextsOf(i) : Log(i)[k].body \in {"a", "b"}
        /\ IsPrefix(SentText(i), invs[i].up)
        /\ invs[i].pc # "pace" => SentText(i) = invs[i].up

C9_Witness ==
    \E i \in DOMAIN invs :
        /\ invs[i].pc = "next"
        /\ invs[i].up = <<"a", "b", "a", "b">>
        /\ SentText(i) = <<"a", "b", "a", "b">>
        /\ \E j \in DOMAIN invs : j # i /\ invs[j].conn = invs[i].conn

\* C10: a prompt message whose prompt is a string of more than 100000 units,
\* received on an authenticated connection, appends one error message to the
\* connection's sent messages, starts no invocation and leaves tokenVerified
\* and sessionIds unchanged.
C10_OversizedPromptRejected ==
    [][(/\ last'.op = "message"
        /\ nMsgs' = nMsgs + 1
        /\ PromptMessage(last'.msg)
        /\ last'.msg.prompt.t = "string"
        /\ last'.msg.prompt.n > MaxPromptLen
        /\ Authenticated(last'.conn))
       => /\ Len(sent'[last'.conn]) = Len(sent[last'.conn]) + 1
          /\ SubSeq(sent'[last'.conn], 1, Len(sent[last'.conn])) = sent[last'.conn]
          /\ sent'[last'.conn][Len(sent'[last'.conn])].type = "error"
          /\ \A c \in Conns \ {last'.conn} : sent'[c] = sent[c]
          /\ invs' = invs
          /\ tokenVerified' = tokenVerified
          /\ sessionIds' = sessionIds]_vars

C10_Witness ==
    /\ last.op = "message"
    /\ last.msg = Obj(Undefined, Str(MaxPromptLen + 1))
    /\ Authenticated(last.conn)
    /\ sessionIds[last.conn] = "s1"
    /\ sent[last.conn][Len(sent[last.conn])] = ErrorMsg("Prompt too long", 0)

\* C11: each of the maps sessionIds and tokenVerified holds an entry for a
\* connection exactly when the connection is open (after the close, no entry
\* exists or comes back).
C11_EntryIffOpen ==
    \A c \in Conns :
        /\ c \in DOMAIN sessionIds <=> connState[c] = "open"
        /\ c \in DOMAIN tokenVerified <=> connState[c] = "open"

\* C12: once a connection has closed while an invocation was streaming on it,
\* no invocation sends a further message (text, done or error) on it.
C12_NoRelayAfterClose ==
    [][\A c \in Conns :
          (connState[c] = "closed" /\ Len(sent'[c]) > Len(sent[c]))
              => sent'[c][Len(sent'[c])].inv = 0]_vars

SetMin(S) == CHOOSE x \in S : \A y \in S : x <= y

\* C13: a connection that has just been opened is unauthenticated and has an
\* empty resume handle, and the first invocation on a connection is passed
\* no resume handle, whatever happened on other connections.
C13_NewConnectionStartsFresh ==
    /\ last.op = "open" =>
          /\ last.conn \in DOMAIN sessionIds /\ sessionIds[last.conn] = ""
          /\ last.conn \in DOMAIN tokenVerified /\ tokenVerified[last.conn] = FALSE
    /\ \A c \in Conns :
          InvsOn(c) # {} => invs[SetMin(InvsOn(c))].resume = ""

C13_Witness ==
    \E c, d \in Conns :
        /\ c # d
        /\ d \in DOMAIN sessionIds /\ sessionIds[d] = "s1"
        /\ Authenticated(d)
        /\ InvsOn(c) # {}
        /\ last.op = "message" /\ last.conn = c
        /\ \E i \in InvsOn(d) : i < SetMin(InvsOn(c))

\* C14: while a connection stays open its tokenVerified entry, once true,
\* stays true; receiving a credential message and the settling of its
\* verification, successful or not, leave the stored resume handles as they
\* are.
C14_AuthenticatedStays ==
    [][/\ \A c \in Conns :
            (Authenticated(c) /\ connState'[c] = "open") => Authenticated(c)'
       /\ (\/ last'.op = "verified"
           \/ last'.op = "message" /\ TruthyToken(last'.msg.token))
              => sessionIds' = sessionIds]_vars

C14_Witness ==
    /\ last.op = "verified"
    /\ connState[last.conn] = "open"
    /\ Authenticated(last.conn)
    /\ sessionIds[last.conn] = "s1"
    /\ sent[last.conn][Len(sent[last.conn])] = ErrorMsg("Token verification failed", 0)

\* C15: a client message that has a token field, whatever its value and
\* whatever else it contains, is handled as a credential message (a
\* verification is started) and starts no invocation.
C15_TokenMessageIsCredential ==
    [][(/\ last'.op = "message"
        /\ nMsgs' = nMsgs + 1
        /\ last'.msg.json = "object"
        /\ last'.msg.token # Undefined)
       => /\ invs' = invs
          /\ Len(verifs') = Len(verifs) + 1]_vars

\* the entry of a connection in a map, as a sequence of zero or one values
Entry(m, k) == IF k \in DOMAIN m THEN <<m[k]>> ELSE <<>>

\* C16: a step taken for one connection (open, message, verification result,
\* stream event, stream error, close) sends nothing on any other connection
\* and leaves every other connection's tokenVerified and sessionIds entries
\* as they are.
C16_ConnectionsIsolated ==
    [][\A b \in Conns :
          b # last'.conn =>
              /\ sent'[b] = sent[b]
              /\ Entry(sessionIds', b) = Entry(sessionIds, b)
              /\ Entry(tokenVerified', b) = Entry(tokenVerified, b)]_vars

C16_Witness ==
    \E d \in Conns :
        /\ d # last.conn
        /\ last.op = "raise"
        /\ sent[last.conn][Len(sent[last.conn])] =
               ErrorMsg("Failed to process query", last.inv)
        /\ connState[d] = "open"
        /\ Authenticated(d)
        /\ sessionIds[d] = "s1"
        /\ \A k \in 1..Len(sent[d]) : sent[d][k].type # "error"

\* one of the two headers of the request carries the key k
CarriesKey(q, k) ==
    \/ q.xkey = Header(<<k>>)
    \/ q.auth = Header(<<k>>)
    \/ q.auth = Header(<<"Bearer ", k>>)

\* C17: with a shared secret configured, a /query request neither of whose
\* headers carries it is answered 401 Unauthorized and causes no call of
\* query(); with no secret configured no request is answered Unauthorized.
C17_QueryNeedsApiKey ==
    \A r \in DOMAIN reqs :
        /\ (apiKeyCfg # "" /\ ~CarriesKey(reqs[r].req, apiKeyCfg)) =>
              /\ reqs[r].pc = "responded"
              /\ reqs[r].status = 401
              /\ reqs[r].error = "Unauthorized"
              /\ ~reqs[r].called
        /\ apiKeyCfg = "" => reqs[r].error # "Unauthorized"

C17_Witness ==
    /\ apiKeyCfg = "k1"
    /\ Len(reqs) = 2
    /\ reqs[1].req = Request(NoHeader, NoHeader, ValidBody)
    /\ reqs[1].error = "Unauthorized"
    /\ reqs[2].req = Request(Header(<<>>), Header(<<"Bearer ", "k1">>), ValidBody)
    /\ reqs[2].called
    /\ reqs[2].status = 200
    /\ reqs[2].text = <<"a", "b">>

\* C18: on every connection exactly one ready message is sent, and it is the
\* first message sent on it: nothing is sent before the connection opens, and
\* once it has opened the first message is ready and no later one is.
C18_ReadyOnceAndFirst ==
    \A c \in Conns :
        IF connState[c] = "new"
        THEN sent[c] = <<>>
        ELSE /\ Len(sent[c]) >= 1
             /\ \A k \in 1..Len(sent[c]) : sent[c][k].type = "ready" <=> k = 1

C18_Witness ==
    \E c \in Conns :
        /\ Len(sent[c]) >= 4
        /\ sent[c][1] = Ready
        /\ sent[c][2] = ErrorMsg("Not authenticated.", 0)
        /\ sent[c][3] = TokenVerifiedMsg
        /\ sent[c][4].type = "text"

\* the prompt of a prompt message is empty or is not text
EmptyOrNotText(p) == p = Str(0) \/ (p # NoPrompt /\ p.t # "string")

\* C19: on an authenticated connection a prompt message whose prompt is empty
\* or not text is answered with one error message on that connection, begins
\* no invocation and leaves both maps as they were.
C19_InvalidPromptRejected ==
    [][(/\ last'.op = "message"
        /\ nMsgs' = nMsgs + 1
        /\ PromptMessage(last'.msg)
        /\ EmptyOrNotText(last'.msg.prompt)
        /\ Authenticated(last'.conn))
       => /\ Len(sent'[last'.conn]) = Len(sent[last'.conn]) + 1
          /\ SubSeq(sent'[last'.conn], 1, Len(sent[last'.conn])) = sent[last'.conn]
          /\ sent'[last'.conn][Len(sent'[last'.conn])].type = "error"
          /\ invs' = invs
          /\ tokenVerified' = tokenVerified
          /\ sessionIds' = sessionIds]_vars

\* C20: when no upstream agent credential is configured, a valid prompt on an
\* authenticated connection is answered with one error message on that
\* connection, begins no invocation and leaves both maps as they were.
C20_NoAgentCredentialRejected ==
    [][(/\ last'.op = "message"
        /\ nMsgs' = nMsgs + 1
        /\ PromptMessage(last'.msg)
        /\ last'.msg.prompt.t = "string"
        /\ last'.msg.prompt.n \in 1..MaxPromptLen
        /\ Authenticated(last'.conn)
        /\ ~agentKey)
       => /\ Len(sent'[last'.conn]) = Len(sent[last'.conn]) + 1
          /\ SubSeq(sent'[last'.conn], 1, Len(sent[last'.conn])) = sent[last'.conn]
          /\ sent'[last'.conn][Len(sent'[last'.conn])].type = "error"
          /\ invs' = invs
          /\ tokenVerified' = tokenVerified
          /\ sessionIds' = sessionIds]_vars

C20_Witness ==
    /\ last.op = "message"
    /\ last.msg = Obj(Undefined, Str(MaxPromptLen))
    /\ Authenticated(last.conn)
    /\ ~agentKey
    /\ invs = <<>>
    /\ sent[last.conn][Len(sent[last.conn])] = ErrorMsg("API key must be configured", 0)

\* the verifyToken calls of connection c that have not settled
Outstanding(c) == {v \in DOMAIN verifs : verifs[v].conn = c /\ verifs[v].pc = "await"}

\* C21: at most one verifyToken call is outstanding per connection at any
\* time: no second call is started for a connection while one is pending.
C21_OneVerificationOutstanding ==
    \A c \in Conns : Cardinality(Outstanding(c)) <= 1

\* C22: while a verifyToken call is outstanding on an unauthenticated
\* connection, a prompt message received on it is not processed before the
\* call has settled: the step that receives it sends nothing and starts no
\* invocation.
C22_PromptWaitsForVerification ==
    [][(/\ last'.op = "message"
        /\ nMsgs' = nMsgs + 1
        /\ PromptMessage(last'.msg)
        /\ ~Authenticated(last'.conn)
        /\ Outstanding(last'.conn) # {})
       => /\ sent' = sent
          /\ invs' = invs]_vars

\* the verifyToken call v settles in this step
Settles(v) ==
    /\ v \in DOMAIN verifs
    /\ verifs[v].pc = "await"
    /\ verifs'[v].pc = "settled"

\* C23: a verification that fails on an unauthenticated connection leaves the
\* connection unauthenticated and sends one failure notification on it; a
\* verification that succeeds authenticates the connection and sends
\* tokenVerified, however many verifications failed on it before.
C23_FailedVerificationAllowsRetry ==
    [][\A v \in VerIds :
          Settles(v) =>
              LET c == verifs[v].conn
              IN /\ (verifs[v].token = "bad" /\ ~Authenticated(c)) =>
                       /\ ~Authenticated(c)'
                       /\ sent'[c] = Append(sent[c],
                                        ErrorMsg("Token verification failed", 0))
                 /\ verifs[v].token = "good" =>
                       /\ Authenticated(c)'
                       /\ sent'[c] = Append(sent[c], TokenVerifiedMsg)]_vars

\* two failed attempts, then a successful one on the same connection
C23_Witness ==
    \E c \in Conns :
        /\ Authenticated(c)
        /\ sent[c] = <<Ready, ErrorMsg("Token verification failed", 0),
                       ErrorMsg("Token verification failed", 0), TokenVerifiedMsg>>
        /\ Len(verifs) = 3
        /\ verifs[3].token = "good"

\* an invocation of connection c has ended with error because the stream raised
RaisedOn(c) == \E i \in InvsOn(c) : invs[i].pc = "error"

\* C24: the step in which the stream raises leaves the connection's state,
\* its verification flag and its handle as they were, and on an authenticated
\* connection on which an invocation has ended with error the next valid
\* prompt starts a new invocation for that connection.
C24_UsableAfterStreamError ==
    [][/\ last'.op = "raise" =>
            /\ connState' = connState
            /\ tokenVerified' = tokenVerified
            /\ sessionIds' = sessionIds
       /\ (/\ last'.op = "message"
           /\ nMsgs' = nMsgs + 1
           /\ PromptMessage(last'.msg)
           /\ last'.msg.prompt.t = "string"
           /\ last'.msg.prompt.n \in 1..MaxPromptLen
           /\ Authenticated(last'.conn)
           /\ RaisedOn(last'.conn)
           /\ agentKey)
          => /\ Len(invs') = Len(invs) + 1
             /\ invs'[Len(invs')].conn = last'.conn
             /\ invs'[Len(invs')].pc = "next"
             /\ sent' = sent]_vars

\* a second invocation was started after the first ended with error
C24_Witness ==
    \E c \in Conns :
        /\ Authenticated(c)
        /\ Len(invs) = 2
        /\ invs[1].conn = c /\ invs[1].pc = "error"
        /\ invs[2].conn = c /\ invs[2].serial /\ invs[2].pc = "done"
        /\ sent[c][Len(sent[c])] = DoneMsg(2)

\* C25: every invocation started on a connection reaches a terminal outcome:
\* with a finite upstream event sequence and a fairly scheduled handler, a
\* done or an error message of that invocation is eventually sent.
C25_InvocationTerminates ==
    \A i \in InvIds :
        (i \in DOMAIN invs) ~>
            (i \in DOMAIN invs /\ DonesOf(i) \cup ErrorsOf(i) # {})

\* two invocations that both reached their terminal message, one of each kind
C25_Witness ==
    /\ Len(invs) = 2
    /\ DonesOf(1) # {} /\ TextsOf(1) # {}
    /\ ErrorsOf(2) # {}

\* a message that JSON.parse accepts and that is not a credential message
ParseableNonCredential(m) ==
    /\ m.json \in {"object", "null"}
    /\ ~TruthyToken(m.token)

\* C26: on an unauthenticated connection every parseable message that is not
\* a credential message is answered with exactly one error message on that
\* connection, starts no invocation and leaves both maps as they were.
C26_UnauthenticatedAlwaysAnswered ==
    [][(/\ last'.op = "message"
        /\ nMsgs' = nMsgs + 1
        /\ ParseableNonCredential(last'.msg)
        /\ ~Authenticated(last'.conn))
       => /\ Len(sent'[last'.conn]) = Len(sent[last'.conn]) + 1
          /\ SubSeq(sent'[last'.conn], 1, Len(sent[last'.conn])) = sent[last'.conn]
          /\ sent'[last'.conn][Len(sent'[last'.conn])].type = "error"
          /\ invs' = invs
          /\ tokenVerified' = tokenVerified
          /\ sessionIds' = sessionIds]_vars

Next ==
    \/ \E c \in Conns : OnOpen(c)
    \/ \E c \in Conns : OnClose(c)
    \/ \E c \in Conns, m \in Messages : OnMessage(c, m)
    \/ \E v \in VerIds : VerifyResolves(v)
    \/ \E i \in InvIds, e \in Events : UpstreamYields(i, e)
    \/ \E i \in InvIds : PaceTimer(i)
    \/ \E i \in InvIds : UpstreamEnds(i)
    \/ \E i \in InvIds : UpstreamRaises(i)

Spec == Init /\ [][Next]_vars

\* the behaviours of one connection, every other connection being closed
SpecOne == InitOne /\ [][Next]_vars

\* the behaviours of a second connection beside one that already has a
\* conversation
SpecTwo == InitTwo /\ [][Next]_vars

\* the pacing timer of every invocation fires (line 358), and the stream of
\* every invocation is finite: the for await (line 342) is eventually left,
\* by exhaustion or by an exception
Fairness ==
    \A i \in InvIds :
        /\ WF_vars(PaceTimer(i))
        /\ WF_vars(UpstreamEnds(i) \/ UpstreamRaises(i))

SpecOneFair == SpecOne /\ Fairness

\* the POST /query endpoint alone
NextQuery ==
    \/ \E q \in Requests : QueryRequest(q)
    \/ \E r \in 1..MaxReqs, e \in Events : QueryYields(r, e)
    \/ \E r \in 1..MaxReqs : QueryEnds(r)
    \/ \E r \in 1..MaxReqs : QueryRaises(r)

SpecQuery == InitQuery /\ [][NextQuery]_vars
====
